---------------------------- MODULE Spec2Model ----------------------------
(***************************************************************************)
(* A3C (src/algorithms/a3c.py, src/algorithms/a3c_conv.py): one            *)
(* Coordinator process (A3C.run) and n_workers Worker processes            *)
(* (Worker.run) that call back into A3C.sync and A3C.checkpoint.  The two  *)
(* files have the same control structure; line numbers are those of        *)
(* a3c.py unless a3c_conv.py is named.                                     *)
(*                                                                         *)
(* Abstractions.  The network is opaque: a parameter group ("pi", "v") is  *)
(* one integer, a backward pass deposits one unit of gradient, and an      *)
(* optimizer step adds the gradient slot to the parameter, so a parameter  *)
(* counts the contributions applied to it.  The environment is an external *)
(* collaborator: its observations, rewards and done flags are drawn from   *)
(* the sets its record names.                                              *)
(***************************************************************************)
EXTENDS Integers, Sequences, FiniteSets, TLC

\* ------------------------------------------------------------------ bounds
NWorkers == 2            \* n_workers of the concurrent configuration
MaxEps == 2              \* max_eps, the episode budget
MaxLength == 2           \* the Worker's max_length (stands for the 1000 of a3c.py:195)
MaxDelay == 2            \* update_global_delay
HeadSize == 2            \* largest size of the policy head (a_dim)
MaxReward == 1           \* environment rewards are 0..MaxReward
SoloEps == 1             \* max_eps of the single-worker configuration
MaxTrajectory == 3       \* longest trajectory handed to A3C.sync directly
MaxFactories == 2        \* longest list of environment factories
PipeCap == 2             \* items the results channel's pipe holds (stands for the OS pipe buffer)

\* --------------------------------------------------------------- constants
Penalty == -1            \* reward recorded on a terminal step
NoGrad == -1             \* a .grad attribute that is None
NoOwner == 0             \* a lock nobody holds

Params == {"pi", "v"}    \* the policy head and the value head of Model
ParamOrder == <<"pi", "v">>

VARIABLES
    n_workers, max_eps, update_global_delay, a_dim, env, start_episode,
    gamma, variant, set_to_none, max_length, env_factory, n_factories,
    factory,
    global_network, opt_steps, global_ep_counter, counter_lock,
    global_ep_reward, res_queue, pipe,
    cpc, episode, sentinels,
    pc, alive, thread_step, episode_step, episode_reward, state, last,
    gradient_updates,
    buffer_s, buffer_a, buffer_r,
    local_network, grad, aliased, opt_tmp, ck_tmp, buffer_v_target,
    n_sync, n_episodes, n_records, n_sentinels

config == <<n_workers, max_eps, update_global_delay, a_dim, env,
            start_episode, gamma, variant, set_to_none, max_length,
            env_factory, n_factories, factory>>
shared == <<global_network, opt_steps, global_ep_counter, counter_lock,
            global_ep_reward, res_queue, pipe>>
coord == <<cpc, episode, sentinels>>
episodeLocals == <<thread_step, episode_step, episode_reward, state, last,
                   gradient_updates>>
buffers == <<buffer_s, buffer_a, buffer_r>>
syncLocals == <<local_network, grad, aliased, opt_tmp, buffer_v_target>>
tallies == <<n_sync, n_episodes, n_records, n_sentinels>>
vars == <<config, shared, coord, pc, alive, episodeLocals, buffers, syncLocals,
          ck_tmp, tallies>>

Workers == 1..n_workers

RECURSIVE SumOver(_, _)
SumOver(f, S) ==
    IF S = {} THEN 0
    ELSE LET x == CHOOSE y \in S : TRUE IN f[x] + SumOver(f, S \ {x})

\* ------------------------------------------------------------ pure helpers
\* a3c.py:109  env.step(action if action < self.env.n_actions else 0)
EnvActionUnchecked(action, n_actions) == action
EnvAction(action, n_actions) == IF action < n_actions THEN action ELSE 0

\* a3c.py:110  if done: r = -1
RecordedRewardKept(r, done) == r
RecordedReward(r, done) == IF done THEN Penalty ELSE r

\* a3c.py:116  thread_step % self.update_global_delay == 0 or done
SyncDue(ts, delay, done) == (ts % delay = 0) \/ done

\* a3c.py:195  max_length = 1000: the value every Worker is constructed with,
\* whatever the max_length option of A3C.__init__
WorkerMaxLength(option) == MaxLength

\* a3c.py:104  while episode_step < self.max_length
WithinLength(es) == es < WorkerMaxLength(max_length)

\* a3c.py:97  while self.global_ep_counter.value < self.max_eps
BudgetLeftInclusive(counter, budget) == counter <= budget
BudgetLeft(counter, budget) == counter < budget

\* a3c.py:262  with self.global_ep_counter.get_lock()
CanAcquireAlways(lock) == TRUE
CanAcquire(lock) == lock = NoOwner

\* loss.backward() accumulates into lp.grad, creating it when it is None
Accumulate(g) == (IF g = NoGrad THEN 0 ELSE g) + 1

\* optimizer.step() on one parameter group: the gradient slot is applied
StepParam(val, g) == val + g

\* Model.forward(s)[-1]: the value head's estimate, a function of the
\* parameters and the state
Value(net, s) == net["v"] + s

\* a3c.py:144  gamma = 0.9; a discount is the fraction <<numerator, denominator>>
DefaultGamma == <<9, 10>>
Gammas == {<<1, 2>>, DefaultGamma}

\* a3c.py:232-235  R = 0. if done else V(s_); a number is a fraction <<n, d>>
Bootstrap(done, net, s) == IF done THEN <<0, 1>> ELSE <<Value(net, s), 1>>

\* a3c.py:240  R = r + self.gamma * R
Discount(r, g, R) == <<r * g[2] * R[2] + g[1] * R[1], g[2] * R[2]>>

\* a3c.py:238-241  the loop over br[::-1], appending each R
RECURSIVE Backup(_, _, _, _, _)
Backup(br, i, g, R, out) ==
    IF i = 0 THEN out
    ELSE LET R2 == Discount(br[i], g, R)
         IN Backup(br, i - 1, g, R2, Append(out, R2))

Reverse(q) == [i \in 1..Len(q) |-> q[Len(q) + 1 - i]]

\* a3c.py:238-242  buffer_v_target, reversed into chronological order
ReturnsUnreversed(br, g, R0) == Backup(br, Len(br), g, R0, <<>>)
Returns(br, g, R0) == Reverse(Backup(br, Len(br), g, R0, <<>>))

\* the shutdown sentinel and a ResultRecord
None == [tag |-> "None"]
ResultRecord(name, reward, ep, len) ==
    [tag |-> "Result", worker_name |-> name, reward |-> reward,
     episode |-> ep, episode_length |-> len]

NoStep == [action |-> 0, env_action |-> 0, env_r |-> 0, r |-> 0,
           done |-> FALSE, new_state |-> 0]
NoTmp == [i |-> 1, step |-> 0, val |-> 0]

\* ------------------------------------------------------------ environments
\* An environment: its action count, the rewards and the observations it emits.
Env(n, rs, os) == [n_actions |-> n, rewards |-> rs, obs |-> os]
PlainEnvs == {Env(1, {1}, {0})}
RichEnvs == {Env(n, 0..MaxReward, {0}) : n \in 1..HeadSize}

\* a3c.py:187  random.randint(0, len(env_factory) - 1): both ends included
\* a3c_conv.py:238  np.random.randint(0, len(env_factory) - 1): high excluded,
\* and an empty range raises ValueError
RandInt(variant_, lo, hi) == IF variant_ = "a3c" THEN lo..hi ELSE lo..(hi - 1)

\* a3c.py:187  the factory indices a worker can be given; a single factory
\* (n = 0: env_factory is no list) is index 0
FactoryChoices(variant_, n) == IF n = 0 THEN {0} ELSE RandInt(variant_, 0, n - 1)

\* the options of A3C.__init__ the configurations below leave at one value
Defaults ==
    [variants |-> {"a3c"}, set_to_none |-> {FALSE}, lengths |-> {MaxLength},
     factories |-> {0}]

\* ---------------------------------------------------------------- Init
\* A3C.__init__ and Worker.__init__: the state before A3C.run.
InitWith(nws, envs, heads, delays, budgets, episodes, opts) ==
    /\ n_workers \in nws
    /\ gamma = DefaultGamma
    /\ variant \in opts.variants
    /\ set_to_none \in opts.set_to_none
    /\ max_length \in opts.lengths
    /\ n_factories \in opts.factories
    /\ env_factory \in [1..(IF n_factories = 0 THEN 1 ELSE n_factories) -> envs]
    /\ IF FactoryChoices(variant, n_factories) = {}
         THEN /\ factory = [w \in 1..n_workers |-> 0]
              /\ cpc = "init_failed"
         ELSE /\ factory \in [1..n_workers -> FactoryChoices(variant, n_factories)]
              /\ cpc = "start"
    /\ a_dim = env_factory[1].n_actions
    /\ env = [w \in 1..n_workers |-> env_factory[factory[w] + 1]]
    /\ pipe = <<>>
    /\ alive = [w \in 1..n_workers |-> FALSE]
    /\ max_eps \in budgets
    /\ update_global_delay \in delays
    /\ a_dim \in heads
    /\ global_network = [p \in Params |-> 0]
    /\ opt_steps = [p \in Params |-> 0]
    /\ start_episode \in episodes
    /\ global_ep_counter = start_episode
    /\ counter_lock = NoOwner
    /\ global_ep_reward = 0
    /\ res_queue = [w \in 1..n_workers |-> <<>>]
    /\ episode = start_episode
    /\ sentinels = 0
    /\ pc = [w \in 1..n_workers |-> "ready"]
    /\ thread_step = [w \in 1..n_workers |-> 1]
    /\ episode_step = [w \in 1..n_workers |-> 0]
    /\ episode_reward = [w \in 1..n_workers |-> 0]
    /\ gradient_updates = [w \in 1..n_workers |-> 0]
    /\ state = [w \in 1..n_workers |-> 0]
    /\ last = [w \in 1..n_workers |-> NoStep]
    /\ buffer_s = [w \in 1..n_workers |-> <<>>]
    /\ buffer_a = [w \in 1..n_workers |-> <<>>]
    /\ buffer_r = [w \in 1..n_workers |-> <<>>]
    /\ local_network = [w \in 1..n_workers |-> global_network]
    /\ grad = [w \in 1..n_workers |-> NoGrad]
    /\ aliased = [w \in 1..n_workers |-> FALSE]
    /\ opt_tmp = [w \in 1..n_workers |-> NoTmp]
    /\ buffer_v_target = [w \in 1..n_workers |-> <<>>]
    /\ ck_tmp = [w \in 1..n_workers |-> 0]
    /\ n_sync = [w \in 1..n_workers |-> 0]
    /\ n_episodes = [w \in 1..n_workers |-> 0]
    /\ n_records = [w \in 1..n_workers |-> 0]
    /\ n_sentinels = [w \in 1..n_workers |-> 0]

\* NWorkers concurrent workers on plain environments.
Init ==
    InitWith({NWorkers}, PlainEnvs, {1}, {MaxDelay}, {MaxEps}, {0, MaxEps},
             Defaults)

\* NWorkers concurrent workers whose budget is one episode short of MaxEps.
InitFair ==
    InitWith({NWorkers}, PlainEnvs, {1}, {MaxDelay}, {MaxEps - 1}, {0},
             Defaults)

\* One worker on every environment of 1..HeadSize actions and all rewards,
\* drawn from a list of two factories whose first has HeadSize actions.
InitSolo ==
    InitWith({1}, RichEnvs, {HeadSize}, {MaxDelay}, {SoloEps}, {0},
             [Defaults EXCEPT !.factories = {2}])

\* One worker under every value of the options: both files, both zero_grad
\* behaviours, every max_length up to the Worker's, every delay up to one more
\* than the Worker's step cap, a single factory or a list.
InitOptions ==
    InitWith({1}, PlainEnvs, {1}, 1..(MaxLength + 1), {SoloEps}, {0},
             [variants |-> {"a3c", "a3c_conv"}, set_to_none |-> BOOLEAN,
              lengths |-> 1..MaxLength, factories |-> 0..MaxFactories])

\* NWorkers workers with one episode of budget left, in both files.
InitFault ==
    InitWith({NWorkers}, PlainEnvs, {1}, {MaxDelay}, {MaxEps}, {MaxEps - 1},
             [Defaults EXCEPT !.variants = {"a3c", "a3c_conv"}])

\* sequences over S of length 1..n
SeqsUpTo(S, n) == UNION {[1..k -> S] : k \in 1..n}

\* A3C.sync called directly by one caller: every trajectory of rewards up to
\* MaxTrajectory long, both terminal flags, two discounts, two value estimates.
InitSync ==
    /\ n_workers = 1
    /\ gamma \in Gammas
    /\ variant = "a3c"
    /\ set_to_none = FALSE
    /\ max_length = MaxLength
    /\ n_factories = 0
    /\ env_factory \in [1..1 -> PlainEnvs]
    /\ factory = [w \in 1..n_workers |-> 0]
    /\ pipe = <<>>
    /\ alive = [w \in 1..n_workers |-> TRUE]
    /\ max_eps = SoloEps
    /\ update_global_delay = MaxDelay
    /\ a_dim = 1
    /\ env = [w \in 1..n_workers |-> env_factory[1]]
    /\ global_network = [p \in Params |-> 0]
    /\ opt_steps = [p \in Params |-> 0]
    /\ start_episode = 0
    /\ global_ep_counter = start_episode
    /\ counter_lock = NoOwner
    /\ global_ep_reward = 0
    /\ res_queue = [w \in 1..n_workers |-> <<>>]
    /\ cpc = "get"
    /\ episode = start_episode
    /\ sentinels = 0
    /\ pc = [w \in 1..n_workers |-> "sync"]
    /\ thread_step = [w \in 1..n_workers |-> 1]
    /\ episode_step = [w \in 1..n_workers |-> 0]
    /\ episode_reward = [w \in 1..n_workers |-> 0]
    /\ gradient_updates = [w \in 1..n_workers |-> 0]
    /\ state = [w \in 1..n_workers |-> 0]
    /\ \E d \in BOOLEAN : last = [w \in 1..n_workers |-> [NoStep EXCEPT !.done = d]]
    /\ \E br \in SeqsUpTo(Penalty..MaxReward, MaxTrajectory) :
         /\ buffer_r = [w \in 1..n_workers |-> br]
         /\ buffer_s = [w \in 1..n_workers |-> [i \in 1..Len(br) |-> 0]]
         /\ buffer_a = [w \in 1..n_workers |-> [i \in 1..Len(br) |-> 0]]
    /\ \E b \in 0..1 :
         local_network = [w \in 1..n_workers |-> [pi |-> 0, v |-> b]]
    /\ grad = [w \in 1..n_workers |-> NoGrad]
    /\ aliased = [w \in 1..n_workers |-> FALSE]
    /\ opt_tmp = [w \in 1..n_workers |-> NoTmp]
    /\ buffer_v_target = [w \in 1..n_workers |-> <<>>]
    /\ ck_tmp = [w \in 1..n_workers |-> 0]
    /\ n_sync = [w \in 1..n_workers |-> 0]
    /\ n_episodes = [w \in 1..n_workers |-> 0]
    /\ n_records = [w \in 1..n_workers |-> 0]
    /\ n_sentinels = [w \in 1..n_workers |-> 0]

\* ---------------------------------------------------------- Coordinator
\* a3c.py:213  [w.start() for w in self.workers]
Start ==
    /\ cpc = "start"
    /\ cpc' = "get"
    /\ pc' = [w \in Workers |-> "loop"]
    /\ alive' = [w \in Workers |-> TRUE]
    /\ UNCHANGED <<config, shared, episode, sentinels, episodeLocals, buffers,
                   syncLocals, ck_tmp, tallies>>

\* a3c.py:215-226  one iteration of the result-draining loop: a blocking
\* read of the channel's pipe
Get ==
    /\ cpc = "get"
    /\ pipe # <<>>
    /\ LET r == Head(pipe) IN
         /\ pipe' = Tail(pipe)
         /\ IF r.tag = "Result"
              THEN /\ episode' = episode + 1
                   /\ UNCHANGED <<cpc, sentinels>>
              ELSE /\ cpc' = "join"
                   /\ sentinels' = sentinels + 1
                   /\ UNCHANGED episode
    /\ UNCHANGED <<config, alive, global_network, opt_steps, global_ep_counter,
                   counter_lock, global_ep_reward, res_queue, pc, episodeLocals, buffers,
                   syncLocals, ck_tmp, tallies>>

\* a3c.py:228  [w.join() for w in self.workers]
Join ==
    /\ cpc = "join"
    /\ \A w \in Workers : ~alive[w]
    /\ cpc' = "returned"
    /\ UNCHANGED <<config, alive, shared, episode, sentinels, pc, episodeLocals,
                   buffers, syncLocals, ck_tmp, tallies>>

\* a3c.py:217  self.res_queue.get() raises.  a3c_conv.py:266-284 catches the
\* exception, logs it and leaves the loop; a3c.py:215-226 has no handler, so
\* the exception leaves A3C.run before the join.
GetRaises ==
    /\ cpc = "get"
    /\ cpc' = IF variant = "a3c_conv" THEN "join" ELSE "raised"
    /\ UNCHANGED <<config, alive, shared, episode, sentinels, pc,
                   episodeLocals, buffers, syncLocals, ck_tmp, tallies>>

\* ------------------------------------------------------- the results channel
\* mp.Queue.put appends to a buffer of the calling process (res_queue[w]); the
\* process's feeder thread writes the buffer into the pipe, which holds a
\* bounded number of bytes, so items of one producer arrive in order and items
\* of different producers in any order.
Feed(w) ==
    /\ alive[w]
    /\ res_queue[w] # <<>>
    /\ Len(pipe) < PipeCap
    /\ pipe' = Append(pipe, Head(res_queue[w]))
    /\ res_queue' = [res_queue EXCEPT ![w] = Tail(@)]
    /\ UNCHANGED <<config, alive, global_network, opt_steps, global_ep_counter,
                   counter_lock, global_ep_reward, coord, pc, episodeLocals,
                   buffers, syncLocals, ck_tmp, tallies>>

\* A worker process ends after Worker.run has returned or raised, once its
\* feeder thread has flushed the buffer into the pipe.
Exit(w) ==
    /\ alive[w]
    /\ pc[w] \in {"done", "crashed"}
    /\ res_queue[w] = <<>>
    /\ alive' = [alive EXCEPT ![w] = FALSE]
    /\ UNCHANGED <<config, shared, coord, pc, episodeLocals, buffers,
                   syncLocals, ck_tmp, tallies>>

\* -------------------------------------------------------------- Worker.run
\* a3c.py:101, 109  self.env.reset() or self.env.step(...) raises: nothing in
\* Worker.run catches it, so run ends without a3c.py:132's put(None)
EnvRaises(w) ==
    /\ \/ pc[w] = "reset"
       \/ pc[w] = "collect" /\ WithinLength(episode_step[w])
    /\ pc' = [pc EXCEPT ![w] = "crashed"]
    /\ UNCHANGED <<config, alive, shared, coord, episodeLocals, buffers,
                   syncLocals, ck_tmp, tallies>>

\* a3c.py:97  the outer loop's test of the global episode counter
Loop(w) ==
    /\ pc[w] = "loop"
    /\ pc' = [pc EXCEPT ![w] =
                IF BudgetLeft(global_ep_counter, max_eps) THEN "reset"
                ELSE "put_none"]
    /\ UNCHANGED <<config, alive, shared, coord, episodeLocals, buffers, syncLocals,
                   ck_tmp, tallies>>

\* a3c.py:100-103  a new episode
Reset(w) ==
    /\ pc[w] = "reset"
    /\ \E s \in env[w].obs : state' = [state EXCEPT ![w] = s]
    /\ buffer_s' = [buffer_s EXCEPT ![w] = <<>>]
    /\ buffer_a' = [buffer_a EXCEPT ![w] = <<>>]
    /\ buffer_r' = [buffer_r EXCEPT ![w] = <<>>]
    /\ episode_reward' = [episode_reward EXCEPT ![w] = 0]
    /\ episode_step' = [episode_step EXCEPT ![w] = 0]
    /\ gradient_updates' = [gradient_updates EXCEPT ![w] = 0]
    /\ pc' = [pc EXCEPT ![w] = "collect"]
    /\ UNCHANGED <<config, alive, shared, coord, thread_step, last, syncLocals,
                   ck_tmp, tallies>>

\* a3c_conv.py:167-176  the arguments of the checkpoint call divide the
\* episode's totals by gradient_updates; a3c.py:130 has no such argument
MeanDefined(variant_, updates) == variant_ = "a3c" \/ updates # 0

\* a3c.py:104, 130  the inner loop ends at the step cap; checkpoint follows,
\* unless evaluating its arguments raises (a3c_conv.py:167-176)
LengthCap(w) ==
    /\ pc[w] = "collect"
    /\ ~WithinLength(episode_step[w])
    /\ pc' = [pc EXCEPT ![w] =
                IF MeanDefined(variant, gradient_updates[w]) THEN "checkpoint"
                ELSE "crashed"]
    /\ UNCHANGED <<config, alive, shared, coord, episodeLocals, buffers, syncLocals,
                   ck_tmp, tallies>>

\* a3c.py:108-116, 126-128  one environment step
Step(w) ==
    /\ pc[w] = "collect"
    /\ WithinLength(episode_step[w])
    /\ \E a \in 0..(a_dim - 1), ns \in env[w].obs, er \in env[w].rewards,
          d \in BOOLEAN :
         LET r == RecordedReward(er, d) IN
           /\ last' = [last EXCEPT ![w] =
                         [action |-> a,
                          env_action |-> EnvAction(a, env[w].n_actions),
                          env_r |-> er, r |-> r, done |-> d, new_state |-> ns]]
           /\ episode_reward' = [episode_reward EXCEPT ![w] = @ + r]
           /\ buffer_a' = [buffer_a EXCEPT ![w] = Append(@, a)]
           /\ buffer_s' = [buffer_s EXCEPT ![w] = Append(@, state[w])]
           /\ buffer_r' = [buffer_r EXCEPT ![w] = Append(@, r)]
           /\ IF SyncDue(thread_step[w], update_global_delay, d)
                THEN /\ pc' = [pc EXCEPT ![w] = "sync"]
                     /\ UNCHANGED <<state, thread_step, episode_step>>
                ELSE /\ state' = [state EXCEPT ![w] = ns]
                     /\ thread_step' = [thread_step EXCEPT ![w] = @ + 1]
                     /\ episode_step' = [episode_step EXCEPT ![w] = @ + 1]
                     /\ UNCHANGED pc
    /\ UNCHANGED <<config, alive, shared, coord, gradient_updates, syncLocals,
                   ck_tmp, tallies>>

\* ---------------------------------------------------------------- A3C.sync
\* a3c.py:231-248  returns and loss, on the caller's own data
SyncLoss(w) ==
    /\ pc[w] = "sync"
    /\ buffer_v_target' =
         [buffer_v_target EXCEPT ![w] =
            Returns(buffer_r[w], gamma,
                    Bootstrap(last[w].done, local_network[w],
                              last[w].new_state))]
    /\ pc' = [pc EXCEPT ![w] = "zero_grad"]
    /\ UNCHANGED <<config, alive, shared, coord, episodeLocals, buffers,
                   local_network, grad, aliased, opt_tmp, ck_tmp, tallies>>

\* torch.optim.Optimizer.zero_grad on a gradient handle that is the local
\* parameter's .grad (held) or not: zeroing in place clears the tensor both
\* names refer to; set_to_none drops only the optimizer's reference
ZeroedKept(g, held, to_none) == g
Zeroed(g, held, to_none) == IF held /\ ~to_none THEN 0 ELSE g

\* a3c.py:251  self.optimizer.zero_grad() acts on this process's handle on the
\* shared parameters; grad[w] is what the local parameters hold as .grad
ZeroGrad(w) ==
    /\ pc[w] = "zero_grad"
    /\ grad' = [grad EXCEPT ![w] = Zeroed(@, aliased[w], set_to_none)]
    /\ aliased' = [aliased EXCEPT ![w] = @ /\ ~set_to_none]
    /\ pc' = [pc EXCEPT ![w] = "backward"]
    /\ UNCHANGED <<config, alive, shared, coord, episodeLocals, buffers,
                   local_network, opt_tmp, buffer_v_target, ck_tmp,
                   tallies>>

\* a3c.py:252-254  loss.backward(); gp._grad = lp.grad
Backward(w) ==
    /\ pc[w] = "backward"
    /\ grad' = [grad EXCEPT ![w] = Accumulate(@)]
    /\ aliased' = [aliased EXCEPT ![w] = TRUE]
    /\ pc' = [pc EXCEPT ![w] = "opt_read"]
    /\ UNCHANGED <<config, alive, shared, coord, episodeLocals, buffers,
                   local_network, opt_tmp, buffer_v_target, ck_tmp, tallies>>

\* a3c.py:255  self.optimizer.step(), per parameter group an in-place update
\* of shared memory: the read ...
OptRead(w) ==
    /\ pc[w] = "opt_read"
    /\ LET p == ParamOrder[opt_tmp[w].i] IN
         opt_tmp' = [opt_tmp EXCEPT ![w] =
                       [i |-> @.i, step |-> opt_steps[p],
                        val |-> global_network[p]]]
    /\ pc' = [pc EXCEPT ![w] = "opt_write"]
    /\ UNCHANGED <<config, alive, shared, coord, episodeLocals, buffers,
                   local_network, grad, aliased, buffer_v_target, ck_tmp,
                   tallies>>

\* ... and the write
OptWrite(w) ==
    /\ pc[w] = "opt_write"
    /\ LET p == ParamOrder[opt_tmp[w].i]
           more == opt_tmp[w].i < Len(ParamOrder) IN
         /\ opt_steps' = [opt_steps EXCEPT ![p] = opt_tmp[w].step + 1]
         /\ global_network' =
              [global_network EXCEPT ![p] = StepParam(opt_tmp[w].val, grad[w])]
         /\ opt_tmp' = [opt_tmp EXCEPT ![w] =
                          IF more THEN [NoTmp EXCEPT !.i = opt_tmp[w].i + 1]
                          ELSE NoTmp]
         /\ pc' = [pc EXCEPT ![w] = IF more THEN "opt_read" ELSE "load"]
    /\ UNCHANGED <<config, alive, global_ep_counter, counter_lock, global_ep_reward,
                   res_queue, pipe, coord, episodeLocals, buffers, local_network,
                   grad, aliased, buffer_v_target, ck_tmp, tallies>>

\* a3c.py:258  local_network.load_state_dict(...) writes into the parameters
\* of the local_network object it was given: the caller's own
LoadedEverywhere(nets, w, p, val) ==
    [v \in DOMAIN nets |-> [nets[v] EXCEPT ![p] = val]]
Loaded(nets, w, p, val) == [nets EXCEPT ![w] = [@ EXCEPT ![p] = val]]

\* a3c.py:258  local_network.load_state_dict(self.global_network.state_dict()),
\* one parameter group at a time
Load(w) ==
    /\ pc[w] = "load"
    /\ LET p == ParamOrder[opt_tmp[w].i]
           more == opt_tmp[w].i < Len(ParamOrder) IN
         /\ local_network' = Loaded(local_network, w, p, global_network[p])
         /\ opt_tmp' = [opt_tmp EXCEPT ![w] =
                          IF more THEN [NoTmp EXCEPT !.i = opt_tmp[w].i + 1]
                          ELSE NoTmp]
         /\ pc' = [pc EXCEPT ![w] = IF more THEN "load" ELSE "sync_ret"]
    /\ UNCHANGED <<config, alive, shared, coord, episodeLocals, buffers, grad,
                   aliased, buffer_v_target, ck_tmp, tallies>>

\* a3c.py:121-128  back in Worker.run after self.synchronize(...)
SyncReturn(w) ==
    /\ pc[w] = "sync_ret"
    /\ n_sync' = [n_sync EXCEPT ![w] = @ + 1]
    /\ buffer_s' = [buffer_s EXCEPT ![w] = <<>>]
    /\ buffer_a' = [buffer_a EXCEPT ![w] = <<>>]
    /\ buffer_r' = [buffer_r EXCEPT ![w] = <<>>]
    /\ IF last[w].done
         THEN /\ pc' = [pc EXCEPT ![w] = "checkpoint"]
              /\ UNCHANGED <<state, thread_step, episode_step>>
         ELSE /\ state' = [state EXCEPT ![w] = last[w].new_state]
              /\ thread_step' = [thread_step EXCEPT ![w] = @ + 1]
              /\ episode_step' = [episode_step EXCEPT ![w] = @ + 1]
              /\ pc' = [pc EXCEPT ![w] = "collect"]
    /\ buffer_v_target' = [buffer_v_target EXCEPT ![w] = <<>>]
    /\ gradient_updates' =
         [gradient_updates EXCEPT ![w] =
            IF variant = "a3c_conv" THEN @ + 1 ELSE @]
    /\ UNCHANGED <<config, alive, shared, coord, episode_reward, last, local_network,
                   grad, aliased, opt_tmp, ck_tmp, n_episodes, n_records,
                   n_sentinels>>

\* ---------------------------------------------------------- A3C.checkpoint
\* a3c.py:262-263  under the counter's lock: the read of value += 1 ...
CkAcquire(w) ==
    /\ pc[w] = "checkpoint"
    /\ CanAcquire(counter_lock)
    /\ counter_lock' = w
    /\ ck_tmp' = [ck_tmp EXCEPT ![w] = global_ep_counter]
    /\ n_episodes' = [n_episodes EXCEPT ![w] = @ + 1]
    /\ pc' = [pc EXCEPT ![w] = "ck_inc"]
    /\ UNCHANGED <<config, alive, global_network, opt_steps, global_ep_counter,
                   global_ep_reward, res_queue, pipe, coord, episodeLocals,
                   buffers, syncLocals, n_sync, n_records, n_sentinels>>

\* ... and its write, then the release
CkIncrement(w) ==
    /\ pc[w] = "ck_inc"
    /\ global_ep_counter' = ck_tmp[w] + 1
    /\ counter_lock' = NoOwner
    /\ pc' = [pc EXCEPT ![w] = "ck_reward"]
    /\ UNCHANGED <<config, alive, global_network, opt_steps, global_ep_reward,
                   res_queue, pipe, coord, episodeLocals, buffers, syncLocals,
                   ck_tmp, tallies>>

\* a3c.py:266-267  the running reward is overwritten under its own lock
CkReward(w) ==
    /\ pc[w] = "ck_reward"
    /\ global_ep_reward' = episode_reward[w]
    /\ pc' = [pc EXCEPT ![w] = "ck_put"]
    /\ UNCHANGED <<config, alive, global_network, opt_steps, global_ep_counter,
                   counter_lock, res_queue, pipe, coord, episodeLocals,
                   buffers, syncLocals, ck_tmp, tallies>>

\* a3c.py:269-274  the record is built from the shared values and enqueued
CkPut(w) ==
    /\ pc[w] = "ck_put"
    /\ res_queue' = [res_queue EXCEPT ![w] =
                       Append(@, ResultRecord(w, global_ep_reward,
                                              global_ep_counter,
                                              episode_step[w]))]
    /\ n_records' = [n_records EXCEPT ![w] = @ + 1]
    /\ ck_tmp' = [ck_tmp EXCEPT ![w] = 0]
    /\ pc' = [pc EXCEPT ![w] = "loop"]
    /\ UNCHANGED <<config, alive, global_network, opt_steps, global_ep_counter,
                   counter_lock, global_ep_reward, pipe, coord, episodeLocals,
                   buffers, syncLocals, n_sync, n_episodes, n_sentinels>>

\* a3c.py:132  self.res_queue.put(None)
PutNone(w) ==
    /\ pc[w] = "put_none"
    /\ res_queue' = [res_queue EXCEPT ![w] = Append(@, None)]
    /\ n_sentinels' = [n_sentinels EXCEPT ![w] = @ + 1]
    /\ pc' = [pc EXCEPT ![w] = "done"]
    /\ UNCHANGED <<config, alive, global_network, opt_steps, global_ep_counter,
                   counter_lock, global_ep_reward, pipe, coord, episodeLocals,
                   buffers, syncLocals, ck_tmp, n_sync, n_episodes, n_records>>

\* ------------------------------------------------------------------- specs
WorkerRun(w) ==
    \/ Loop(w) \/ Reset(w) \/ LengthCap(w) \/ Step(w)
    \/ SyncLoss(w) \/ ZeroGrad(w) \/ Backward(w) \/ OptRead(w) \/ OptWrite(w)
    \/ Load(w) \/ SyncReturn(w)
    \/ CkAcquire(w) \/ CkIncrement(w) \/ CkReward(w) \/ CkPut(w)
    \/ PutNone(w) \/ Exit(w)

Coordinator == Start \/ Get \/ Join

Next ==
    \/ Start
    \/ Get
    \/ Join
    \/ \E w \in Workers : Loop(w)
    \/ \E w \in Workers : Reset(w)
    \/ \E w \in Workers : LengthCap(w)
    \/ \E w \in Workers : Step(w)
    \/ \E w \in Workers : SyncLoss(w)
    \/ \E w \in Workers : ZeroGrad(w)
    \/ \E w \in Workers : Backward(w)
    \/ \E w \in Workers : OptRead(w)
    \/ \E w \in Workers : OptWrite(w)
    \/ \E w \in Workers : Load(w)
    \/ \E w \in Workers : SyncReturn(w)
    \/ \E w \in Workers : CkAcquire(w)
    \/ \E w \in Workers : CkIncrement(w)
    \/ \E w \in Workers : CkReward(w)
    \/ \E w \in Workers : CkPut(w)
    \/ \E w \in Workers : PutNone(w)
    \/ \E w \in Workers : Feed(w)
    \/ \E w \in Workers : Exit(w)

\* Next, and the failures of its blocking calls
NextFault ==
    \/ Next
    \/ GetRaises
    \/ \E w \in Workers : EnvRaises(w)

Spec == Init /\ [][Next]_vars

SpecSolo == InitSolo /\ [][Next]_vars

SpecOptions == InitOptions /\ [][Next]_vars

SpecFault == InitFault /\ [][NextFault]_vars

\* The steps of one A3C.sync call
NextSync ==
    \/ \E w \in Workers : SyncLoss(w)
    \/ \E w \in Workers : ZeroGrad(w)
    \/ \E w \in Workers : Backward(w)
    \/ \E w \in Workers : OptRead(w)
    \/ \E w \in Workers : OptWrite(w)
    \/ \E w \in Workers : Load(w)

SpecSync == InitSync /\ [][NextSync]_vars

\* Every process that can take a step eventually takes one.
FairSpec ==
    /\ InitFair /\ [][Next]_vars
    /\ WF_vars(Coordinator)
    /\ \A w \in 1..NWorkers : WF_vars(w \in Workers /\ WorkerRun(w))
    /\ \A w \in 1..NWorkers : WF_vars(w \in Workers /\ Feed(w))

\* ------------------------------------------------------------------ claims
AllDone == \A w \in Workers : pc[w] = "done"
LoopLeft == cpc \in {"join", "returned"}
InCheckpoint(w) == pc[w] \in {"checkpoint", "ck_inc", "ck_reward", "ck_put"}
\* between the start of optimizer.zero_grad() and the end of optimizer.step()
InUpdate(w) == pc[w] \in {"backward", "opt_read", "opt_write"}

\* C1: when the Coordinator has left its result-draining loop it has
\* dequeued exactly n_workers shutdown sentinels.
C1_ExactlyNSentinels == LoopLeft => sentinels = n_workers

\* C2: when every worker has returned from all its sync calls, the optimizer's
\* step count and the contributions held by every shared parameter equal the
\* number of sync calls made.
C2_NoLostUpdate ==
    AllDone =>
      \A p \in Params :
        /\ opt_steps[p] = SumOver(n_sync, Workers)
        /\ global_network[p] = SumOver(n_sync, Workers)

\* C3: at most one worker is between the start of optimizer.zero_grad() and
\* the end of optimizer.step().
C3_MutualExclusion ==
    \A v, w \in Workers : (v # w /\ InUpdate(v)) => ~InUpdate(w)

\* C4: at the step that completes a sync call, the caller's local parameters
\* all equal the shared parameters.
C4_FreshOnReturn ==
    [][\A w \in Workers :
         (pc[w] = "load" /\ pc'[w] = "sync_ret")
           => local_network'[w] = global_network']_vars

\* C5: the global episode counter never decreases, and it equals its starting
\* value plus the number of checkpoint calls whose increment has been written;
\* when all workers are done it is the starting value plus all episodes.
C5_CounterExact ==
    /\ [](global_ep_counter =
            start_episode + SumOver(n_episodes, Workers)
              - Cardinality({w \in Workers : pc[w] = "ck_inc"}))
    /\ [][/\ global_ep_counter' >= global_ep_counter
          /\ global_ep_counter' - global_ep_counter <= 1]_vars

C5_Witness ==
    /\ AllDone
    /\ \A w \in Workers : n_episodes[w] >= 1
    /\ n_workers >= 2
    /\ global_ep_counter = start_episode + SumOver(n_episodes, Workers)

\* C6: when A3C.run has returned, the Coordinator has dequeued as many records
\* as episodes were completed and no record is left in the results channel.
C6_AllRecordsConsumed ==
    cpc = "returned" =>
      /\ episode - start_episode = SumOver(n_episodes, Workers)
      /\ \A w \in Workers :
           \A i \in 1..Len(res_queue[w]) : res_queue[w][i].tag # "Result"
      /\ \A i \in 1..Len(pipe) : pipe[i].tag # "Result"

C8_CapIsNotCompletion ==
    \A w \in Workers :
      InCheckpoint(w) => (last[w].done /\ buffer_r[w] = <<>>)

\* C9: the reward a step appends to the trajectory and adds to the episode
\* reward is -1 when the environment reported done, and the environment's own
\* reward otherwise.
C9_TerminalOverride ==
    [][\A w \in Workers :
         Len(buffer_r'[w]) = Len(buffer_r[w]) + 1 =>
           LET r == buffer_r'[w][Len(buffer_r'[w])] IN
             /\ r = IF last'[w].done THEN -1 ELSE last'[w].env_r
             /\ episode_reward'[w] = episode_reward[w] + r]_vars

C9_Witness ==
    \E w \in Workers :
      /\ pc[w] = "sync"
      /\ last[w].done
      /\ last[w].env_r = 1
      /\ Len(buffer_r[w]) = 2
      /\ buffer_r[w][1] = 1
      /\ buffer_r[w][2] = -1

\* C10: the action index passed to env.step lies in 0..n_actions-1, and it is
\* 0 when the sampled index is n_actions or more.
C10_ActionValid ==
    \A w \in Workers :
      buffer_a[w] # <<>> =>
        /\ last[w].action = buffer_a[w][Len(buffer_a[w])]
        /\ last[w].env_action \in 0..(env[w].n_actions - 1)
        /\ last[w].action >= env[w].n_actions => last[w].env_action = 0

C10_Witness ==
    \E w \in Workers :
      /\ buffer_a[w] # <<>>
      /\ last[w].action >= env[w].n_actions
      /\ last[w].action > 0
      /\ last[w].env_action = 0

\* C11: the targets A3C.sync computes are as many as the rewards, in
\* chronological order, with R[k] = r[k] + gamma*B for the last and
\* R[i] = r[i] + gamma*R[i+1] before it, B being 0 when terminal and the value
\* estimate of the next state otherwise; rewards 1,1,1 with gamma 1/2, terminal,
\* give 7/4, 3/2, 1.
C11_Returns ==
    \A w \in Workers :
      pc[w] = "zero_grad" =>
        LET br == buffer_r[w]
            vt == buffer_v_target[w]
            k == Len(br)
            B == IF last[w].done THEN 0
                 ELSE Value(local_network[w], last[w].new_state)
        IN /\ Len(vt) = k
           /\ \A i \in 1..k : vt[i][2] > 0
           /\ vt[k][1] * gamma[2] = vt[k][2] * (br[k] * gamma[2] + gamma[1] * B)
           /\ \A i \in 1..(k - 1) :
                vt[i][1] * gamma[2] * vt[i + 1][2]
                  = vt[i][2] * (br[i] * gamma[2] * vt[i + 1][2]
                                  + gamma[1] * vt[i + 1][1])
           /\ (br = <<1, 1, 1>> /\ gamma = <<1, 2>> /\ last[w].done)
                => /\ 4 * vt[1][1] = 7 * vt[1][2]
                   /\ 2 * vt[2][1] = 3 * vt[2][2]
                   /\ vt[3][1] = vt[3][2]

C11_Witness ==
    \E w \in Workers :
      /\ pc[w] = "zero_grad"
      /\ buffer_r[w] = <<1, 1, 1>>
      /\ gamma = <<1, 2>>
      /\ last[w].done
      /\ Len(buffer_v_target[w]) = 3
      /\ 4 * buffer_v_target[w][1][1] = 7 * buffer_v_target[w][1][2]

Max(a, b) == IF a >= b THEN a ELSE b

\* C19: the global episode counter never exceeds the larger of its initial
\* value and max_eps + n_workers - 1.
C19_OvershootBound ==
    global_ep_counter <= Max(start_episode, max_eps + n_workers - 1)

\* the bound is met: every worker passed the loop test before any increment
C19_Witness ==
    /\ start_episode < max_eps
    /\ n_workers > 1
    /\ global_ep_counter = max_eps + n_workers - 1

\* C12: a failure of the Coordinator's read of the results channel is
\* recovered inside A3C.run in both files: the loop ends and the workers are
\* joined; the exception never leaves A3C.run.
C12_ReadFailureRecovered == cpc # "raised"

\* C13: when a worker has died without its sentinel, the Coordinator is never
\* left in its blocking read with every worker process gone and nothing in
\* the channel, whichever workers died.
C13_NoStuckReceive ==
    (\E w \in Workers : pc[w] = "crashed")
      => ~(/\ cpc = "get"
           /\ pipe = <<>>
           /\ \A w \in Workers : ~alive[w] /\ pc[w] \in {"done", "crashed"})

\* C14: whatever max_length option A3C was given, no worker's episode runs
\* more than max_length environment steps, and an episode enters checkpoint
\* at the step cap only with exactly max_length steps taken.
C14_MaxLengthHonoured ==
    \A w \in Workers :
      /\ episode_step[w] <= max_length
      /\ (pc[w] = "checkpoint" /\ ~last[w].done) => episode_step[w] = max_length

\* C15: with a list of k >= 1 factories, construction succeeds and every
\* factory of the list is a possible assignment for each worker, in both
\* files.
C15_WholeList ==
    n_factories >= 1 =>
      /\ cpc # "init_failed"
      /\ FactoryChoices(variant, n_factories) = 0..(n_factories - 1)

\* C16: once the Coordinator has left its loop, no worker whose run has
\* returned is held back from exiting by undelivered items: a full pipe that
\* nobody reads while the worker's buffer still holds records or its sentinel.
C16_NoBlockedProducer ==
    cpc \in {"join", "returned"} =>
      \A w \in Workers :
        ~(/\ alive[w]
          /\ pc[w] = "done"
          /\ res_queue[w] # <<>>
          /\ Len(pipe) = PipeCap)

\* C17: in every sync call the gradient the optimizer step applies is the
\* gradient of that call's loss alone: one backward pass, nothing left over
\* from an earlier call.
C17_OwnGradientOnly ==
    \A w \in Workers : pc[w] \in {"opt_read", "opt_write"} => grad[w] = 1

\* inside A3C.sync, up to the clearing of the buffers after it
InSync(w) ==
    pc[w] \in {"sync", "zero_grad", "backward", "opt_read", "opt_write",
               "load", "sync_ret"}

\* C18: a trajectory passed to sync has between 1 and update_global_delay
\* entries, the same number of states, actions and rewards; and outside the
\* collection loop and sync the buffers are empty, so no collected step leaves
\* the loop without having been passed to sync.
C18_TrajectoryDiscipline ==
    \A w \in Workers :
      /\ InSync(w) =>
           /\ Len(buffer_r[w]) \in 1..update_global_delay
           /\ Len(buffer_s[w]) = Len(buffer_r[w])
           /\ Len(buffer_a[w]) = Len(buffer_r[w])
      /\ (~InSync(w) /\ pc[w] # "collect") =>
           /\ buffer_s[w] = <<>>
           /\ buffer_a[w] = <<>>
           /\ buffer_r[w] = <<>>

\* C20: the record a checkpoint call enqueues carries the caller's own
\* episode: its reward is the episode_reward the caller passed, and its
\* episode index is the counter value the caller's own increment wrote.
C20_OwnRecord ==
    [][\A w \in Workers :
         (pc[w] = "ck_put" /\ pc'[w] = "loop")
           => LET rec == res_queue'[w][Len(res_queue'[w])] IN
                /\ rec.reward = episode_reward[w]
                /\ rec.episode = ck_tmp[w] + 1]_vars

\* C21: in a3c_conv.py an episode never reaches its checkpoint call with
\* gradient_updates = 0: the means total/gradient_updates are defined and the
\* worker does not die of the division before its sentinel.
C21_MeanDefined ==
    variant = "a3c_conv" =>
      \A w \in Workers :
        /\ pc[w] # "crashed"
        /\ InCheckpoint(w) => gradient_updates[w] >= 1

\* C22: the action recorded for a collected step is the action index that
\* was passed to env.step for that step, also when the sampled index is
\* n_actions or more.
C22_RecordedIsExecuted ==
    \A w \in Workers :
      buffer_a[w] # <<>>
        => buffer_a[w][Len(buffer_a[w])] = last[w].env_action

\* the step is one of worker w: its position or its place in a parameter loop
\* changes
Acts(w) == pc'[w] # pc[w] \/ opt_tmp'[w] # opt_tmp[w]

\* C23: a step of worker w inside A3C.sync leaves every other worker's local
\* parameters and trajectory buffers unchanged, and a step inside
\* A3C.checkpoint changes no worker's local parameters.
C23_WorkerIsolation ==
    [][\A w \in Workers :
         /\ (InSync(w) /\ Acts(w)) =>
              \A v \in Workers \ {w} :
                /\ local_network'[v] = local_network[v]
                /\ buffer_s'[v] = buffer_s[v]
                /\ buffer_a'[v] = buffer_a[v]
                /\ buffer_r'[v] = buffer_r[v]
         /\ (InCheckpoint(w) /\ Acts(w)) => local_network' = local_network]_vars

\* a sync call has just refreshed one worker's parameters while another
\* worker holds a trajectory and older parameters
C23_Witness ==
    \E w, v \in Workers :
      /\ w # v
      /\ pc[w] = "sync_ret"
      /\ buffer_r[v] # <<>>
      /\ local_network[v] # local_network[w]

=============================================================================
